---- MODULE Spec2Model ----
(***************************************************************************)
(* Model of src/src/usages.ts: the usage-to-codeowner pipeline.            *)
(*   getUsages : load ignore rules, walk the tree, scan every file         *)
(*   getOwners : parse the ownership file, match, write the CSV reports    *)
(* Strings are sequences of one-character strings, so that splitting,      *)
(* slicing, substring search, glob matching and the file-name replacement  *)
(* are computed as the code computes them.                                 *)
(* Every action is one continuation of the async code: it completes the    *)
(* outstanding filesystem call and runs to the next await.                 *)
(***************************************************************************)
EXTENDS Integers, Sequences, FiniteSets, TLC

VARIABLES
    pc,         \* position of the run
    err,        \* the filesystem call whose failure ended the run, or "none"
    pending,    \* filesystem calls issued and not yet completed
    query,      \* argv.query
    ig,         \* paths excluded by the rules read from .gitignore
    stack,      \* the active walk() calls, innermost last
    files,      \* what walk(sourceDir, ig) resolved to
    idx,        \* number of files the scan loop has finished
    scanned,    \* history: <<file, content>> of every file read by the scan
    found,      \* getUsages' record, as [file, lines] in insertion order
    coText,     \* history: the content read from the ownership file
    coMap,      \* getOwners' Map pattern -> owners, in Map order
    ownerCounts,\* Map owner -> count, in Map order
    ownerFiles, \* Map owner -> list of [file, lines], in Map order
    invoked,    \* history: getOwners has been called
    listed,     \* history: directories whose readdir was issued
    out0,       \* the output directory as it was before the run
    outFiles,   \* the output directory: file name -> content (rows)
    written     \* history: names of the files written, in order

vars == <<pc, err, pending, query, ig, stack, files, idx, scanned, found,
          coText, coMap, ownerCounts, ownerFiles, invoked, listed, out0, outFiles,
          written>>

----------------------------------------------------------------------------
(* Bounds of the model *)

\* most lines an ownership file holds
MaxRuleLines == 2
\* longest file content the scanner is run on exhaustively
MaxContentLen == 4

----------------------------------------------------------------------------
(* Generic helpers *)

RECURSIVE SeqsUpTo(_, _)
SeqsUpTo(S, n) ==
    IF n = 0 THEN {<<>>}
    ELSE LET shorter == SeqsUpTo(S, n - 1)
         IN  shorter \cup {Append(s, c) : s \in {t \in shorter : Len(t) = n - 1}, c \in S}

Range(s) == {s[i] : i \in 1..Len(s)}

\* Array.prototype.join
RECURSIVE Join(_, _)
Join(ss, sep) ==
    IF ss = <<>> THEN <<>>
    ELSE IF Len(ss) = 1 THEN ss[1]
    ELSE ss[1] \o sep \o Join(Tail(ss), sep)

\* String.prototype.startsWith / endsWith
StartsWith(s, p) == Len(s) >= Len(p) /\ SubSeq(s, 1, Len(p)) = p
EndsWith(s, p) == Len(s) >= Len(p) /\ SubSeq(s, Len(s) - Len(p) + 1, Len(s)) = p

----------------------------------------------------------------------------
(* String operations of the code *)

\* fileContent.split(/\r?\n/): "\n" and "\r\n" separate lines, a "\r" that is
\* not followed by "\n" stays in its line; the empty string is one empty line.
RECURSIVE SplitFrom(_, _)
SplitFrom(s, cur) ==
    IF s = <<>> THEN <<cur>>
    ELSE IF s[1] = "\n" THEN <<cur>> \o SplitFrom(Tail(s), <<>>)
    ELSE IF s[1] = "\r" /\ Len(s) >= 2 /\ s[2] = "\n"
         THEN <<cur>> \o SplitFrom(SubSeq(s, 3, Len(s)), <<>>)
    ELSE SplitFrom(Tail(s), Append(cur, s[1]))

SplitLines(s) == SplitFrom(s, <<>>)

\* line.includes(argv.query): literal, case-sensitive containment
Includes(line, q) ==
    \E i \in 0..(Len(line) - Len(q)) : SubSeq(line, i + 1, i + Len(q)) = q

\* lines.forEach((line, idx) => { if (line.includes(q)) hits.push(idx + 1) })
RECURSIVE HitsFrom(_, _, _)
HitsFrom(lines, q, i) ==
    IF i > Len(lines) THEN <<>>
    ELSE (IF Includes(lines[i], q) THEN <<i>> ELSE <<>>) \o HitsFrom(lines, q, i + 1)

\* a scanner that records every file, also one without hits
RecordAlways(rec, file, hits) == Append(rec, [file |-> file, lines |-> hits])

\* if (hits.length) { found[file] = hits; }
Record(rec, file, hits) ==
    IF hits # <<>> THEN Append(rec, [file |-> file, lines |-> hits]) ELSE rec

\* a scanner that records idx instead of idx + 1
ScanHitsZeroBased(content, q) ==
    LET h == HitsFrom(SplitLines(content), q, 1)
    IN  [i \in 1..Len(h) |-> h[i] - 1]

ScanHits(content, q) == HitsFrom(SplitLines(content), q, 1)

\* characters matched by \s that the model's alphabets contain
Whitespace == {" ", "\t", "\r", "\n"}

\* line.split(/\s+/): maximal whitespace runs separate the parts; a leading or
\* trailing run leaves an empty first or last part.
RECURSIVE SplitWsFrom(_, _, _)
SplitWsFrom(s, cur, inWs) ==
    IF s = <<>> THEN <<cur>>
    ELSE IF s[1] \in Whitespace
         THEN IF inWs THEN SplitWsFrom(Tail(s), cur, TRUE)
              ELSE <<cur>> \o SplitWsFrom(Tail(s), <<>>, TRUE)
    ELSE SplitWsFrom(Tail(s), Append(cur, s[1]), FALSE)

SplitWs(s) == SplitWsFrom(s, <<>>, FALSE)

\* [a-zA-Z0-9_-]
SafeChars ==
    {"a","b","c","d","e","f","g","h","i","j","k","l","m",
     "n","o","p","q","r","s","t","u","v","w","x","y","z",
     "A","B","C","D","E","F","G","H","I","J","K","L","M",
     "N","O","P","Q","R","S","T","U","V","W","X","Y","Z",
     "0","1","2","3","4","5","6","7","8","9","_","-"}

\* owner.replace(/[^a-zA-Z0-9_-]/g, "_")
SafeName(owner) ==
    [i \in 1..Len(owner) |-> IF owner[i] \in SafeChars THEN owner[i] ELSE "_"]

Csv == <<".", "c", "s", "v">>
ResultsCsv == <<"r", "e", "s", "u", "l", "t", "s">> \o Csv

\* minimatch(file, pattern) for literal characters and "*": a "*" matches any
\* run of characters other than "/".
RECURSIVE Minimatch(_, _)
Minimatch(f, p) ==
    IF p = <<>> THEN f = <<>>
    ELSE IF Head(p) = "*"
         THEN \/ Minimatch(f, Tail(p))
              \/ f # <<>> /\ Head(f) # "/" /\ Minimatch(Tail(f), p)
    ELSE f # <<>> /\ Head(f) = Head(p) /\ Minimatch(Tail(f), Tail(p))

----------------------------------------------------------------------------
(* Object and Map semantics of the runtime *)

Digits == <<"0", "1", "2", "3", "4", "5", "6", "7", "8", "9">>

DigitVal(c) == (CHOOSE i \in 1..10 : Digits[i] = c) - 1

RECURSIVE NumVal(_)
NumVal(s) == IF s = <<>> THEN 0 ELSE 10 * NumVal(SubSeq(s, 1, Len(s) - 1)) + DigitVal(s[Len(s)])

\* A property key that is an array index: a canonical decimal numeral
\* (bounded here to 9 digits, all of which are below 2^32 - 1).
IsArrayIndex(k) ==
    /\ Len(k) \in 1..9
    /\ \A i \in 1..Len(k) : k[i] \in Range(Digits)
    /\ Len(k) > 1 => k[1] # "0"

\* Object.entries(usages): array-index keys first, in ascending numeric order,
\* then the other keys in insertion order.
ObjectEntries(rec) ==
    LET isIdx(e) == IsArrayIndex(e.file)
        notIdx(e) == ~IsArrayIndex(e.file)
        byNum(a, b) == NumVal(a.file) < NumVal(b.file)
    IN  SortSeq(SelectSeq(rec, isIdx), byNum) \o SelectSeq(rec, notIdx)

\* Map.prototype.has / get / set on a Map kept as <<key, value>> pairs in
\* insertion order: set on an existing key keeps the key's position.
MapHas(m, k) == \E i \in 1..Len(m) : m[i][1] = k
MapGet(m, k) == m[CHOOSE i \in 1..Len(m) : m[i][1] = k][2]
MapSet(m, k, v) ==
    IF MapHas(m, k)
    THEN [i \in 1..Len(m) |-> IF m[i][1] = k THEN <<k, v>> ELSE m[i]]
    ELSE Append(m, <<k, v>>)
MapKeys(m) == [i \in 1..Len(m) |-> m[i][1]]

----------------------------------------------------------------------------
(* The filesystem the run is given *)

Root == <<>>
GitDir == <<".", "g", "i", "t">>
GitignorePath == <<".", "g", "i", "t", "i", "g", "n", "o", "r", "e">>
CodeownersPath == <<"C", "O">>

\* fs.readdir(dir, {withFileTypes: true}) of the modelled tree:
\*   .git/c   a/b   a/i.png   1   s (neither a file nor a directory)
Readdir(dir) ==
    IF dir = Root
    THEN << [name |-> GitDir, kind |-> "dir"],
            [name |-> <<"a">>, kind |-> "dir"],
            [name |-> <<"1">>, kind |-> "file"],
            [name |-> <<"s">>, kind |-> "other"] >>
    ELSE IF dir = GitDir
    THEN << [name |-> <<"c">>, kind |-> "file"] >>
    ELSE IF dir = <<"a">>
    THEN << [name |-> <<"b">>, kind |-> "file"],
            [name |-> <<"i", ".", "p", "n", "g">>, kind |-> "file"] >>
    ELSE <<>>

\* contents a scanned file may turn out to hold
Contents ==
    { <<"x">>,
      <<"q", "\n", "x", "\n", "q">>,
      <<"q", "q">>,
      <<"x", "\r", "\n", "q">> }

\* rule sets a .gitignore that is present may hold: the paths it excludes
GitignoreOptions ==
    { {<<"a">>}, {<<"a", "/", "b">>}, {<<"1">>} }

\* lines the ownership file may hold
RuleLines ==
    { <<"/", "a", "/", "*", " ", "@", "a">>,
      <<"/", "a", "/", "b", " ", "_", "a", " ", "@", "a">>,
      <<"/", "a", "/", "*", " ", "b">>,
      <<"/", "*", "\t", "b", " ", "b">>,
      <<"/", "1", " ", "r", "e", "s", "u", "l", "t", "s">>,
      <<"#", "c">>,
      <<>> }

\* what the output directory may hold before the run
OldOutputs ==
    { <<>>,
      << <<ResultsCsv, [header |-> "owner,count", rows |-> << <<<<"o">>, <<9>>>> >>]>> >> }

Queries == { <<"q">> }

----------------------------------------------------------------------------
(* Ignore Evaluator and Tree Walker *)

\* path.join(dir, ent.name) relative to base: path.relative(base, fullPath) || ent.name
RelPath(dir, name) == IF dir = Root THEN name ELSE dir \o <<"/">> \o name

\* the path and its ancestor directories
Ancestors(p) ==
    {p} \cup {SubSeq(p, 1, i - 1) : i \in {j \in 1..Len(p) : p[j] = "/" /\ j > 1}}

BaseName(p) ==
    LET cuts == {j \in 1..Len(p) : p[j] = "/"}
    IN  IF cuts = {} THEN p
        ELSE SubSeq(p, (CHOOSE j \in cuts : \A k \in cuts : k <= j) + 1, Len(p))

DirName(p) ==
    LET cuts == {j \in 1..Len(p) : p[j] = "/"}
    IN  IF cuts = {} THEN Root
        ELSE SubSeq(p, 1, (CHOOSE j \in cuts : \A k \in cuts : k <= j) - 1)

BinaryExtensions ==
    { <<".", "p", "n", "g">>, <<".", "j", "p", "g">>, <<".", "j", "p", "e", "g">>,
      <<".", "g", "i", "f">>, <<".", "s", "v", "g">>, <<".", "w", "e", "b", "p">>,
      <<".", "i", "c", "o">>, <<".", "z", "i", "p">>, <<".", "t", "a", "r">>,
      <<".", "g", "z">>, <<".", "b", "z", "2">>, <<".", "x", "z">>,
      <<".", "t", "g", "z">> }

\* one path against the rules: those of .gitignore, ".git", "**/*/lib/*" and
\* the binary extensions
RuleHits(rules, p) ==
    \/ p \in rules
    \/ BaseName(p) = GitDir
    \/ DirName(p) # Root /\ DirName(DirName(p)) # Root /\ BaseName(DirName(p)) = <<"l", "i", "b">>
    \/ \E e \in BinaryExtensions : EndsWith(BaseName(p), e)

\* ig.ignores(relPath): a path is excluded when it or a directory above it is
Ignores(rules, p) == \E a \in Ancestors(p) : RuleHits(rules, a)

\* if (relPath === ".git" || ig.ignores(relPath)) continue;
Skipped(rules, relPath) == relPath = GitDir \/ Ignores(rules, relPath)

\* a filesystem call: its kind, its path and, for a write, the table written
NoData == [header |-> "", rows |-> <<>>]
Op(o, p, d) == [op |-> o, path |-> p, data |-> d]

----------------------------------------------------------------------------
(* Ownership Matcher and Report Writer: the synchronous parts *)

\* .filter((line) => line && !line.startsWith("#"))
RuleLine(line) == line # <<>> /\ ~StartsWith(line, <<"#">>)

\* parts[0].slice(1)
Slice1(part) == IF part = <<>> THEN <<>> ELSE Tail(part)

\* .forEach((line) => { ...; coMap.set(pattern, owners) }) over the lines kept
RECURSIVE ParseLines(_, _)
ParseLines(lines, m) ==
    IF lines = <<>> THEN m
    ELSE LET parts == SplitWs(Head(lines))
         IN  ParseLines(Tail(lines), MapSet(m, Slice1(parts[1]), Tail(parts)))

\* a parser that keeps one rule per line, in a list instead of a Map
RECURSIVE ParseLinesKeepAll(_, _)
ParseLinesKeepAll(lines, m) ==
    IF lines = <<>> THEN m
    ELSE LET parts == SplitWs(Head(lines))
         IN  ParseLinesKeepAll(Tail(lines), Append(m, <<Slice1(parts[1]), Tail(parts)>>))

ParseCodeownersKeepAll(content) ==
    ParseLinesKeepAll(SelectSeq(SplitLines(content), RuleLine), <<>>)

ParseCodeowners(content) ==
    ParseLines(SelectSeq(SplitLines(content), RuleLine), <<>>)

\* a matcher that stops at the first rule whose pattern matches
RECURSIVE RuleOwnersFirstMatch(_, _)
RuleOwnersFirstMatch(file, rules) ==
    IF rules = <<>> THEN <<>>
    ELSE IF Minimatch(file, Head(rules)[1]) THEN Head(rules)[2]
    ELSE RuleOwnersFirstMatch(file, Tail(rules))

\* the owners a file adds, in loop order: every rule in Map order whose
\* pattern matches, every owner of the rule in line order
RECURSIVE RuleOwners(_, _)
RuleOwners(file, rules) ==
    IF rules = <<>> THEN <<>>
    ELSE (IF Minimatch(file, Head(rules)[1]) THEN Head(rules)[2] ELSE <<>>)
         \o RuleOwners(file, Tail(rules))

\* the (owner, file, lines) additions of the whole matching loop, in order
RECURSIVE Additions(_, _)
Additions(entries, rules) ==
    IF entries = <<>> THEN <<>>
    ELSE LET e == Head(entries)
             os == RuleOwners(e.file, rules)
         IN  [i \in 1..Len(os) |-> [owner |-> os[i], file |-> e.file, lines |-> e.lines]]
             \o Additions(Tail(entries), rules)

\* ownerCounts.set(owner, (ownerCounts.get(owner) || 0) + 1)
RECURSIVE CountAll(_, _)
CountAll(adds, m) ==
    IF adds = <<>> THEN m
    ELSE LET o == Head(adds).owner
         IN  CountAll(Tail(adds),
                      MapSet(m, o, (IF MapHas(m, o) THEN MapGet(m, o) ELSE 0) + 1))

\* if (!ownerFiles.has(owner)) ownerFiles.set(owner, []); ownerFiles.get(owner).push(...)
RECURSIVE CollectAll(_, _)
CollectAll(adds, m) ==
    IF adds = <<>> THEN m
    ELSE LET a == Head(adds)
             old == IF MapHas(m, a.owner) THEN MapGet(m, a.owner) ELSE <<>>
         IN  CollectAll(Tail(adds),
                        MapSet(m, a.owner, Append(old, [file |-> a.file, lines |-> a.lines])))

MatchAdditions(usages, rules) == Additions(ObjectEntries(usages), rules)

\* resultsLines: "owner,count" and one `${owner},${count}` per Map entry
SummaryTable(counts) ==
    [header |-> "owner,count",
     rows |-> [i \in 1..Len(counts) |-> <<counts[i][1], <<counts[i][2]>>>>]]

\* "file,lines" and one `${file},"${lines.join(", ")}"` per list entry
DetailTable(fileAndLines) ==
    [header |-> "file,lines",
     rows |-> [i \in 1..Len(fileAndLines) |-> <<fileAndLines[i].file, fileAndLines[i].lines>>]]

\* path.join(outDir, `${safeName}.csv`)
DetailName(owner) == SafeName(owner) \o Csv

\* the write the owner loop issues for its n-th entry, or none at its end
DetailWrites(oFiles, n) ==
    IF n <= Len(oFiles)
    THEN {Op("writeFile", DetailName(oFiles[n][1]), DetailTable(oFiles[n][2]))}
    ELSE {}

\* a scan that issues the reads of all remaining files at once
ScanReadsAll(fs, n) == {Op("readFile", fs[i], NoData) : i \in n..Len(fs)}

\* the read the scan loop issues for its n-th file, or none at its end
ScanReads(fs, n) == IF n <= Len(fs) THEN {Op("readFile", fs[n], NoData)} ELSE {}

----------------------------------------------------------------------------
(* The run *)

\* main() has called getUsages(), which has issued the read of .gitignore
Init ==
    /\ pc = "ignore"
    /\ err = "none"
    /\ pending = {Op("readFile", GitignorePath, NoData)}
    /\ query \in Queries
    /\ ig = {}
    /\ stack = <<>>
    /\ files = <<>>
    /\ idx = 0
    /\ scanned = <<>>
    /\ found = <<>>
    /\ coText = <<>>
    /\ coMap = <<>>
    /\ ownerCounts = <<>>
    /\ ownerFiles = <<>>
    /\ invoked = FALSE
    /\ listed = {}
    /\ out0 \in OldOutputs
    /\ outFiles = out0
    /\ written = <<>>

\* an awaited call rejects and nothing catches it: the async function ends
Abort(what) ==
    /\ pc' = "failed"
    /\ err' = what
    /\ pending' = {}
    /\ UNCHANGED <<query, ig, stack, files, idx, scanned, found, coText, coMap, ownerCounts,
                   ownerFiles, invoked, listed, out0, outFiles, written>>

\* walk(sourceDir, ig) is called: its readdir is issued
EnterWalk(rules) ==
    /\ ig' = rules
    /\ pc' = "walk"
    /\ pending' = {Op("readdir", Root, NoData)}
    /\ listed' = listed \cup {Root}
    /\ UNCHANGED <<err, query, stack, files, idx, scanned, found, coText, coMap, ownerCounts,
                   ownerFiles, invoked, out0, outFiles, written>>

\* the .gitignore is read: ig.add(gitignoreContent) and the fixed rules
GitignoreLoaded ==
    /\ pc = "ignore"
    /\ \E g \in GitignoreOptions : EnterWalk(g)

\* .catch(() => ""): a .gitignore that cannot be read is an empty rule set
GitignoreMissing ==
    /\ pc = "ignore"
    /\ EnterWalk({})

\* const entries = await fs.readdir(dir, ...); const results = []
ReaddirDone ==
    /\ pc = "walk"
    /\ \E r \in pending :
        /\ r.op = "readdir"
        /\ stack' = Append(stack, [dir |-> r.path, entries |-> Readdir(r.path), results |-> <<>>])
        /\ pending' = pending \ {r}
    /\ UNCHANGED <<pc, err, query, ig, files, idx, scanned, found, coText, coMap, ownerCounts,
                   ownerFiles, invoked, listed, out0, outFiles, written>>

ReaddirFail ==
    /\ pc = "walk"
    /\ \E r \in pending : r.op = "readdir"
    /\ Abort("readdir")

\* a walker that tests for a directory before it consults the ignore rules
EntryStepDescendFirst(rules, dir, ent) ==
    LET relPath == RelPath(dir, ent.name)
    IN  IF ent.kind = "dir" THEN "descend"
        ELSE IF Skipped(rules, relPath) THEN "skip"
        ELSE IF ent.kind = "file" THEN "push"
        ELSE "skip"

\* what one iteration of walk's loop does with an entry
EntryStep(rules, dir, ent) ==
    LET relPath == RelPath(dir, ent.name)
    IN  IF Skipped(rules, relPath) THEN "skip"
        ELSE IF ent.kind = "dir" THEN "descend"
        ELSE IF ent.kind = "file" THEN "push"
        ELSE "skip"

\* one iteration of for (const ent of entries)
WalkEntry ==
    /\ pc = "walk"
    /\ pending = {}
    /\ stack # <<>>
    /\ stack[Len(stack)].entries # <<>>
    /\ LET top == stack[Len(stack)]
           ent == Head(top.entries)
           relPath == RelPath(top.dir, ent.name)
           step == EntryStep(ig, top.dir, ent)
       IN  /\ stack' = [stack EXCEPT ![Len(stack)] =
                          [top EXCEPT !.entries = Tail(top.entries),
                                      !.results = IF step = "push"
                                                  THEN Append(top.results, relPath)
                                                  ELSE top.results]]
           /\ pending' = IF step = "descend" THEN {Op("readdir", relPath, NoData)} ELSE {}
           /\ listed' = IF step = "descend" THEN listed \cup {relPath} ELSE listed
    /\ UNCHANGED <<pc, err, query, ig, files, idx, scanned, found, coText, coMap, ownerCounts,
                   ownerFiles, invoked, out0, outFiles, written>>

\* a nested walk returns: results.push(...(await walk(fullPath, ig, base)))
WalkReturn ==
    /\ pc = "walk"
    /\ pending = {}
    /\ Len(stack) > 1
    /\ stack[Len(stack)].entries = <<>>
    /\ LET n == Len(stack)
       IN  stack' = [SubSeq(stack, 1, n - 1) EXCEPT ![n - 1].results =
                        stack[n - 1].results \o stack[n].results]
    /\ UNCHANGED <<pc, err, pending, query, ig, files, idx, scanned, found, coText, coMap,
                   ownerCounts, ownerFiles, invoked, listed, out0, outFiles, written>>

\* const usages = await getUsages(); void getOwners(usages): getOwners issues
\* the read of the ownership file
EnterOwners ==
    /\ invoked' = TRUE
    /\ pc' = "owners"
    /\ pending' = {Op("readFile", CodeownersPath, NoData)}

\* the outermost walk returns and the scan loop starts
WalkDone ==
    /\ pc = "walk"
    /\ pending = {}
    /\ Len(stack) = 1
    /\ stack[1].entries = <<>>
    /\ stack' = <<>>
    /\ files' = stack[1].results
    /\ IF files' = <<>>
       THEN EnterOwners
       ELSE /\ pc' = "scan"
            /\ pending' = ScanReads(files', 1)
            /\ UNCHANGED invoked
    /\ UNCHANGED <<err, query, ig, idx, scanned, found, coText, coMap, ownerCounts, ownerFiles,
                   listed, out0, outFiles, written>>

\* one iteration of for (const file of files), from the read's completion on
ScanFrom(S) ==
    /\ pc = "scan"
    /\ \E r \in pending, content \in S :
        /\ r.op = "readFile"
        /\ found' = Record(found, r.path, ScanHits(content, query))
        /\ scanned' = Append(scanned, <<r.path, content>>)
        /\ idx' = idx + 1
        /\ IF idx + 1 >= Len(files)
           THEN EnterOwners
           ELSE /\ pc' = "scan"
                /\ pending' = (pending \ {r}) \cup ScanReads(files, idx + 2)
                /\ UNCHANGED invoked
    /\ UNCHANGED <<err, query, ig, stack, files, coText, coMap, ownerCounts, ownerFiles, listed,
                   out0, outFiles, written>>

ScanDone == ScanFrom(Contents)

\* a scan that notes the failed read and goes on with the next file
ScanFailSkipsFile ==
    /\ pc = "scan"
    /\ \E r \in pending :
        /\ r.op = "readFile"
        /\ err' = "readFile"
        /\ idx' = idx + 1
        /\ IF idx + 1 >= Len(files)
           THEN EnterOwners
           ELSE /\ pc' = "scan"
                /\ pending' = (pending \ {r}) \cup ScanReads(files, idx + 2)
                /\ UNCHANGED invoked
    /\ UNCHANGED <<query, ig, stack, files, scanned, found, coText, coMap, ownerCounts,
                   ownerFiles, listed, out0, outFiles, written>>

ScanFail ==
    /\ pc = "scan"
    /\ \E r \in pending : r.op = "readFile"
    /\ Abort("readFile")

\* getOwners from the ownership file's content to await fs.mkdir
OwnersDone ==
    /\ pc = "owners"
    /\ \E ls \in SeqsUpTo(RuleLines, MaxRuleLines) :
        LET rules == ParseCodeowners(Join(ls, <<"\n">>))
            adds == MatchAdditions(found, rules)
        IN  /\ coText' = Join(ls, <<"\n">>)
            /\ coMap' = rules
            /\ ownerCounts' = CountAll(adds, <<>>)
            /\ ownerFiles' = CollectAll(adds, <<>>)
    /\ pc' = "mkdir"
    /\ pending' = {Op("mkdir", Root, NoData)}
    /\ UNCHANGED <<err, query, ig, stack, files, idx, scanned, found, invoked, listed,
                   out0, outFiles, written>>

OwnersFail ==
    /\ pc = "owners"
    /\ Abort("codeowners")

\* the directory exists: results.csv is composed and its write issued
MkdirDone ==
    /\ pc = "mkdir"
    /\ pc' = "summary"
    /\ pending' = {Op("writeFile", ResultsCsv, SummaryTable(ownerCounts))}
    /\ UNCHANGED <<err, query, ig, stack, files, idx, scanned, found, coText, coMap, ownerCounts,
                   ownerFiles, invoked, listed, out0, outFiles, written>>

MkdirFail ==
    /\ pc = "mkdir"
    /\ Abort("mkdir")

\* a write completes: the file holds the data, the owner loop goes on
WriteDone ==
    /\ pc \in {"summary", "detail"}
    /\ \E w \in pending :
        /\ w.op = "writeFile"
        /\ outFiles' = MapSet(outFiles, w.path, w.data)
        /\ written' = Append(written, w.path)
        /\ pending' = (pending \ {w}) \cup DetailWrites(ownerFiles, Len(written) + 1)
        /\ pc' = IF pending' = {} THEN "done" ELSE "detail"
    /\ UNCHANGED <<err, query, ig, stack, files, idx, scanned, found, coText, coMap, ownerCounts,
                   ownerFiles, invoked, listed, out0>>

WriteFail ==
    /\ pc \in {"summary", "detail"}
    /\ Abort("writeFile")

Next ==
    \/ GitignoreLoaded
    \/ GitignoreMissing
    \/ ReaddirDone
    \/ ReaddirFail
    \/ WalkEntry
    \/ WalkReturn
    \/ WalkDone
    \/ ScanDone
    \/ ScanFail
    \/ OwnersDone
    \/ OwnersFail
    \/ MkdirDone
    \/ MkdirFail
    \/ WriteDone
    \/ WriteFail

Spec == Init /\ [][Next]_vars

----------------------------------------------------------------------------
(* The Query Scanner on every short content: the run at the start of its    *)
(* scan loop, one file to read, the content drawn from all strings of the   *)
(* alphabet up to MaxContentLen and the query from all up to two characters *)

ScanAlphabet == {"q", "x", "\n", "\r"}
QueryAlphabet == {"q", "x"}
AllContents == SeqsUpTo(ScanAlphabet, MaxContentLen)
AllQueries == SeqsUpTo(QueryAlphabet, 2)

InitScan ==
    /\ pc = "scan"
    /\ err = "none"
    /\ files = << <<"a", "/", "b">> >>
    /\ pending = ScanReads(files, 1)
    /\ query \in AllQueries
    /\ ig = {<<"1">>}
    /\ stack = <<>>
    /\ idx = 0
    /\ scanned = <<>>
    /\ found = <<>>
    /\ coText = <<>>
    /\ coMap = <<>>
    /\ ownerCounts = <<>>
    /\ ownerFiles = <<>>
    /\ invoked = FALSE
    /\ listed = {Root, <<"a">>}
    /\ out0 = <<>>
    /\ outFiles = out0
    /\ written = <<>>

ScanAny == ScanFrom(AllContents)

NextScan == ScanAny

SpecScan == InitScan /\ [][NextScan]_vars

----------------------------------------------------------------------------
(* Properties *)

\* The lines of a text, stated from the positions of its line feeds: line k
\* lies between the (k-1)-th and the k-th line feed, and a carriage return
\* directly before the line feed that ends a line belongs to the break.
LineFeeds(s) == {i \in 1..Len(s) : s[i] = "\n"}
NthFeed(s, k) == CHOOSE i \in LineFeeds(s) : Cardinality({j \in LineFeeds(s) : j <= i}) = k
LinesOf(s) ==
    LET n == Cardinality(LineFeeds(s))
        first(k) == IF k = 1 THEN 1 ELSE NthFeed(s, k - 1) + 1
        last(k) == IF k > n THEN Len(s)
                   ELSE LET e == NthFeed(s, k) - 1
                        IN  IF e >= first(k) /\ s[e] = "\r" THEN e - 1 ELSE e
    IN  [k \in 1..(n + 1) |-> SubSeq(s, first(k), last(k))]

StrictlyIncreasing(ns) == \A i, j \in 1..Len(ns) : i < j => ns[i] < ns[j]

\* occurrences of q in a line, counted left to right without overlap
RECURSIVE Occurrences(_, _)
Occurrences(line, q) ==
    IF Len(line) < Len(q) \/ q = <<>> THEN 0
    ELSE IF SubSeq(line, 1, Len(q)) = q
         THEN 1 + Occurrences(SubSeq(line, Len(q) + 1, Len(line)), q)
    ELSE Occurrences(Tail(line), q)

RECURSIVE SumSeq(_)
SumSeq(ns) == IF ns = <<>> THEN 0 ELSE Head(ns) + SumSeq(Tail(ns))

TotalOccurrences(content, q) ==
    LET ls == LinesOf(content)
    IN  SumSeq([k \in 1..Len(ls) |-> Occurrences(ls[k], q)])

HitLines(content, q) ==
    LET ls == LinesOf(content)
    IN  {k \in 1..Len(ls) : Includes(ls[k], q)}

\* the list recorded for a file has n entries, strictly increasing, each a
\* 1-based index of a line of the content
RecordedAs(file, content, n) ==
    \E e \in Range(found) :
        /\ e.file = file
        /\ Len(e.lines) = n
        /\ StrictlyIncreasing(e.lines)
        /\ \A j \in 1..Len(e.lines) : e.lines[j] \in 1..Len(LinesOf(content))

\* C1 as stated: a scanned file with N >= 1 occurrences of the query across
\* its lines is recorded with exactly N line numbers, strictly increasing,
\* each a valid 1-based line index.
C1_PerOccurrence ==
    \A i \in 1..Len(scanned) :
        LET n == TotalOccurrences(scanned[i][2], query)
        IN  (query # <<>> /\ n >= 1) => RecordedAs(scanned[i][1], scanned[i][2], n)

\* C1 amended: a scanned file of which N >= 1 lines contain the query is
\* recorded with exactly N line numbers, strictly increasing, each a valid
\* 1-based index of a line of the file (lines split on \n or \r\n).
C1_PerLine ==
    \A i \in 1..Len(scanned) :
        LET n == Cardinality(HitLines(scanned[i][2], query))
        IN  n >= 1 => RecordedAs(scanned[i][1], scanned[i][2], n)

\* C1 witness: a file with a \r\n break and two lines that contain the query
\* has been scanned and recorded.
C1_Witness ==
    \E i \in 1..Len(scanned) :
        /\ Cardinality(HitLines(scanned[i][2], query)) = 2
        /\ \E j \in 2..Len(scanned[i][2]) :
              scanned[i][2][j] = "\n" /\ scanned[i][2][j - 1] = "\r"
        /\ \E e \in Range(found) : e.file = scanned[i][1] /\ Len(e.lines) = 2

\* the matching loop has run
Matched == pc \in {"mkdir", "summary", "detail", "done"} \/ err \in {"mkdir", "writeFile"}

\* how often x occurs in the sequence s
CountIn(s, x) == Cardinality({i \in 1..Len(s) : s[i] = x})

\* the entries of owner o's aggregate list that name file f
EntriesFor(o, f) ==
    IF MapHas(ownerFiles, o)
    THEN Cardinality({i \in 1..Len(MapGet(ownerFiles, o)) : MapGet(ownerFiles, o)[i].file = f})
    ELSE 0

CountOf(o) == IF MapHas(ownerCounts, o) THEN MapGet(ownerCounts, o) ELSE 0

\* every owner a rule names or the aggregate holds
Owners ==
    UNION {Range(coMap[i][2]) : i \in 1..Len(coMap)}
    \cup Range(MapKeys(ownerCounts)) \cup Range(MapKeys(ownerFiles))

\* the rules whose pattern matches f and whose owner list names o
RulesNaming(o, f) ==
    {i \in 1..Len(coMap) : Minimatch(f, coMap[i][1]) /\ o \in Range(coMap[i][2])}

\* the sum of the values of a function with a finite domain
RECURSIVE SumFn(_)
SumFn(g) ==
    IF DOMAIN g = {} THEN 0
    ELSE LET x == CHOOSE y \in DOMAIN g : TRUE
         IN  g[x] + SumFn([y \in DOMAIN g \ {x} |-> g[y]])

FoundFiles == {found[i].file : i \in 1..Len(found)}

\* the files owner o's aggregate list names
FilesOf(o) ==
    IF MapHas(ownerFiles, o)
    THEN {MapGet(ownerFiles, o)[i].file : i \in 1..Len(MapGet(ownerFiles, o))}
    ELSE {}

\* C2 as stated: a file with a hit that matches K distinct patterns whose
\* rules name owner O has exactly K entries in O's list and adds K to O's
\* count; a file that matches no rule adds nothing to any owner.
C2_OnePerPattern ==
    Matched =>
        \A o \in Owners :
            LET k == [f \in FoundFiles |-> Cardinality(RulesNaming(o, f))]
            IN  /\ \A f \in FoundFiles : EntriesFor(o, f) = k[f]
                /\ CountOf(o) = SumFn(k)
                /\ \A f \in FilesOf(o) : f \in FoundFiles /\ k[f] >= 1

\* C2 amended: a file with a hit has, in O's list, one entry per occurrence of
\* O in the owner lists of the rules whose pattern it matches (K entries when
\* each of K matching rules names O once), and O's count grows by as much:
\* no deduplication, no stop at the first matching rule; a file that matches
\* no rule adds nothing to any owner.
C2_OnePerNaming ==
    Matched =>
        \A o \in Owners :
            LET per == [f \in FoundFiles |->
                          SumFn([i \in 1..Len(coMap) |->
                                   IF Minimatch(f, coMap[i][1])
                                   THEN CountIn(coMap[i][2], o) ELSE 0])]
            IN  /\ \A f \in FoundFiles : EntriesFor(o, f) = per[f]
                /\ CountOf(o) = SumFn(per)
                /\ \A f \in FilesOf(o) : f \in FoundFiles /\ per[f] >= 1

\* C2 witness: a file with a hit matches two distinct patterns whose rules
\* each name the same owner once, and that owner holds two entries for it.
C2_Witness ==
    /\ Matched
    /\ \E o \in Owners, f \in FoundFiles :
        /\ Cardinality(RulesNaming(o, f)) = 2
        /\ \A i \in RulesNaming(o, f) : CountIn(coMap[i][2], o) = 1
        /\ EntriesFor(o, f) = 2
        /\ CountOf(o) = 2

\* C7: the scan result never holds a file with an empty line list, a scanned
\* file without a hit is absent from it, and every entry of every owner's
\* list names a file of the scan result and carries that file's line list.
C7_AggregateFromScan ==
    /\ \A i \in 1..Len(found) : found[i].lines # <<>>
    /\ \A i \in 1..Len(scanned) :
          HitLines(scanned[i][2], query) = {} => scanned[i][1] \notin FoundFiles
    /\ \A k \in 1..Len(ownerFiles) :
          \A j \in 1..Len(ownerFiles[k][2]) :
              \E i \in 1..Len(found) :
                  /\ found[i].file = ownerFiles[k][2][j].file
                  /\ found[i].lines = ownerFiles[k][2][j].lines
                  /\ Len(found[i].lines) >= 1

\* C7 witness: one scanned file had no hit, and an owner's list holds another
\* file with its two line numbers.
C7_Witness ==
    /\ \E i \in 1..Len(scanned) : HitLines(scanned[i][2], query) = {}
    /\ \E k \in 1..Len(ownerFiles) :
          \E j \in 1..Len(ownerFiles[k][2]) : Len(ownerFiles[k][2][j].lines) = 2

\* the rule lines of the ownership file as read, and what each declares:
\* the pattern is the first part without its first character, the owners are
\* the parts after it
KeptLines == SelectSeq(LinesOf(coText), RuleLine)
Declared ==
    LET kept == KeptLines
    IN  [i \in 1..Len(kept) |->
            LET parts == SplitWs(kept[i])
            IN  [pattern |-> Slice1(parts[1]), owners |-> Tail(parts)]]

WalkedFiles == Range(files) \cup UNION {Range(stack[i].results) : i \in 1..Len(stack)}
AggregateFiles == UNION {FilesOf(o) : o \in Range(MapKeys(ownerFiles))}
WrittenRowFiles ==
    UNION {{w.data.rows[i][1] : i \in 1..Len(w.data.rows)} :
              w \in {x \in pending : x.op = "writeFile" /\ x.data.header = "file,lines"}}
    \cup UNION {{MapGet(outFiles, written[n]).rows[i][1] :
                    i \in 1..Len(MapGet(outFiles, written[n]).rows)} :
                n \in {m \in 1..Len(written) :
                          MapGet(outFiles, written[m]).header = "file,lines"}}

\* the proper ancestors of a path
Above(p) == Ancestors(p) \ {p}

\* C4: no path the Ignore Evaluator excludes is in the walker's output; no
\* directory that is excluded or is .git is ever listed; no file under such
\* a directory is read, recorded by the scan or named by an output row.
C4_ExcludedNeverWalked ==
    /\ \A p \in WalkedFiles : ~Ignores(ig, p)
    /\ \A d \in listed : d # Root => ~Skipped(ig, d)
    /\ \A r \in pending : r.op = "readdir" /\ r.path # Root => ~Skipped(ig, r.path)
    /\ \A p \in WalkedFiles \cup {scanned[i][1] : i \in 1..Len(scanned)}
                \cup FoundFiles \cup AggregateFiles \cup WrittenRowFiles :
          /\ ~Skipped(ig, p)
          /\ \A d \in Above(p) : ~Skipped(ig, d)

\* C4 witness: the .gitignore excludes directory a; the run is complete, has
\* listed neither a nor .git and has walked only the file 1, which it wrote
\* a row for.
C4_Witness ==
    /\ pc = "done"
    /\ <<"a">> \in ig
    /\ listed = {Root}
    /\ files = << <<"1">> >>
    /\ <<"1">> \in WrittenRowFiles

\* C8: a failed directory read or file read ends the run there: nothing is
\* outstanding and no step follows, the Ownership Matcher is never invoked,
\* and the output directory is as it was; every failure that is recorded has
\* ended the run, and the read of the ignore rules is never one of them.
C8_AbortOnFirstFailure ==
    /\ err # "none" => pc = "failed" /\ pending = {} /\ ~ENABLED Next
    /\ err \in {"readdir", "readFile", "codeowners", "mkdir", "writeFile", "none"}
    /\ err \in {"readdir", "readFile"} =>
          /\ ~invoked
          /\ coMap = <<>> /\ ownerCounts = <<>> /\ ownerFiles = <<>>
          /\ written = <<>>
          /\ outFiles = out0
    /\ pc = "failed" => err # "none"

\* C8 witness: the ignore rules could not be read and the walk went on with
\* none; the first file was scanned with a hit, the read of the second
\* failed, and the results.csv of an earlier run is untouched.
C8_Witness ==
    /\ ig = {}
    /\ pc = "failed"
    /\ err = "readFile"
    /\ Len(files) = 2
    /\ Len(scanned) = 1
    /\ found # <<>>
    /\ out0 # <<>>
    /\ outFiles = out0

\* C9: at most one filesystem call is outstanding; a file is read only after
\* the walk has returned, the files are read one after the other in the
\* walker's order, the matcher runs only after every file was scanned, and
\* results.csv is written first, then the owners' tables one by one.
C9_StrictlySequential ==
    /\ Cardinality(pending) <= 1
    /\ (pc = "scan" \/ scanned # <<>>) =>
          /\ stack = <<>>
          /\ \A r \in pending : r.op # "readdir"
    /\ Len(scanned) = idx
    /\ \A i \in 1..Len(scanned) : scanned[i][1] = files[i]
    /\ pc = "scan" => pending = {Op("readFile", files[idx + 1], NoData)}
    /\ invoked => Len(scanned) = Len(files) /\ stack = <<>>
    /\ (coMap # <<>> \/ ownerCounts # <<>>) => invoked
    /\ written # <<>> => written[1] = ResultsCsv
    /\ \A n \in 2..Len(written) : written[n] = DetailName(ownerFiles[n - 1][1])
    /\ \A w \in pending :
          w.op = "writeFile" =>
              IF written = <<>> THEN w.path = ResultsCsv
              ELSE w.path = DetailName(ownerFiles[Len(written)][1])

\* C9 witness: a complete run that read two files and wrote results.csv and
\* the tables of two owners.
C9_Witness ==
    /\ pc = "done"
    /\ Len(scanned) = 2
    /\ Len(written) = 3

\* C3 as stated: after a complete run every owner has a row in the written
\* summary whose count is the number of rows of the table written for that
\* owner, so the counts and the rows have the same sum.
C3_SummaryMatchesDetails ==
    pc = "done" =>
        LET summary == MapGet(outFiles, ResultsCsv)
            detail(o) == MapGet(outFiles, DetailName(o))
        IN  /\ \A k \in 1..Len(ownerCounts) :
                  LET o == ownerCounts[k][1]
                  IN  /\ MapHas(outFiles, DetailName(o))
                      /\ \E i \in 1..Len(summary.rows) :
                            /\ summary.rows[i][1] = o
                            /\ summary.rows[i][2] = <<Len(detail(o).rows)>>
            /\ SumFn([i \in 1..Len(summary.rows) |-> summary.rows[i][2][1]])
                 = SumFn([k \in 1..Len(ownerFiles) |-> Len(detail(ownerFiles[k][1]).rows)])

\* C5 as stated: after a complete run every owner of the aggregate has its
\* table in the output directory, under the owner's name with the characters
\* outside [A-Za-z0-9_-] replaced and .csv added, and the table's rows are
\* that owner's occurrences in the order they were added.
C5_OneTablePerOwner ==
    pc = "done" =>
        \A k \in 1..Len(ownerFiles) :
            /\ MapHas(outFiles, DetailName(ownerFiles[k][1]))
            /\ MapGet(outFiles, DetailName(ownerFiles[k][1])) = DetailTable(ownerFiles[k][2])

\* a sequence without its repetitions, each element at its first place
RECURSIVE Dedup(_)
Dedup(xs) ==
    IF xs = <<>> THEN <<>>
    ELSE LET front == Dedup(SubSeq(xs, 1, Len(xs) - 1))
             x == xs[Len(xs)]
         IN  IF x \in Range(front) THEN front ELSE Append(front, x)

\* the owners in the order the claim gives: files in scan order, rules in
\* declaration order, owners in line order
EncounterOrder ==
    LET adds == Additions(found, coMap)
    IN  Dedup([i \in 1..Len(adds) |-> adds[i].owner])

\* C6 as stated: after a complete run results.csv holds the header
\* owner,count and one row per owner with a match, in the order the owners
\* were first met with the files taken in scan order.
C6_SummaryInEncounterOrder ==
    pc = "done" =>
        LET summary == MapGet(outFiles, ResultsCsv)
        IN  /\ summary.header = "owner,count"
            /\ [i \in 1..Len(summary.rows) |-> summary.rows[i][1]] = EncounterOrder

====
